---- MODULE Spec2Model ----
\* A model of the AgentForge Runner backend (agent_server.py): the tool
\* executor (calculator, file_read, file_write, code_execute, ...), the chat
\* handler with its provider adapters, and the tool-call parser.
EXTENDS Integers, Sequences, FiniteSets, TLC

VARIABLES
    call,       \* the request being served: [op |-> ..., input |-> ...]
    ret,        \* what the handler returned (a Python dict, see Ok / Err)
    fsLog,      \* the filesystem accesses the handler performed, in order
    tmpFiles,   \* the temporary files that exist (NamedTemporaryFile, delete=False)
    tempPath,   \* the temporary file the last code_execute created (0: none)
    visited,    \* the syntax-tree nodes eval_expr was called on, in order
    netLog,     \* the outbound network calls the handler made, in order
    current_config, \* the process-wide agent configuration
    sent,       \* the adapter handle_chat called, with its messages and payload
    status,     \* the HTTP status lines sent for the request
    body,       \* the JSON body of the chat response
    tool_results, \* the list process_tool_calls returned to handle_chat
    version,    \* how many times current_config was updated since startup
    turn,       \* the chat turn in flight, by its reads of current_config
    agent_config,  \* agent_runner.py: the global agent configuration
    agent_version, \* agent_runner.py: how many times agent_config was updated
    coroutines  \* agent_runner.py: the /chat coroutines of the event loop

chatVars == <<sent, status, body, tool_results>>
configVars == <<version, turn, agent_config, agent_version, coroutines>>
vars == <<call, ret, fsLog, tmpFiles, tempPath, visited, netLog, current_config, sent, status,
          body, tool_results, version, turn, agent_config, agent_version, coroutines>>

\* ---------------------------------------------------------------- bounds
\* The number of components of a requested path.
MaxDepth == 2
\* The longest run of a submitted program and the largest requested timeout,
\* in seconds.
MaxSeconds == 2
\* The temporary files that may pile up before the model stops creating more.
MaxTmpFiles == 2
\* The number of nodes of a calculator expression's syntax tree.
MaxNodes == 4
\* The number of messages of the history a chat request carries.
MaxHistory == 2
\* The number of segments (a tool-call marker or plain text) of a reply.
MaxSegments == 2
\* updates of a process-wide configuration
MaxUpdates == 2
\* /chat coroutines in flight in agent_runner.py
MaxCoroutines == 2

\* ------------------------------------------------------- Python dictionaries
\* A handler's result dict: the keys it holds, its success flag, its error
\* string (the pieces of the f-string, <<>> when there is no "error" key) and
\* the value under its payload key.
NoValue == <<"none">>

Ok(keys, payload) ==
    [success |-> TRUE, keys |-> {"success"} \cup keys, error |-> <<>>,
     payload |-> payload]

Err(prefix, detail) ==
    [success |-> FALSE, keys |-> {"success", "error"}, error |-> <<prefix, detail>>,
     payload |-> NoValue]

NoRet == [success |-> FALSE, keys |-> {}, error |-> <<>>, payload |-> NoValue]

\* ------------------------------------------------------------------ paths
\* A path is a string; it is drawn as a list of component names, absolute or
\* relative to the working directory. Names are sequences of characters, so
\* that str.startswith is the character-wise prefix the code computes.
HomeName == <<"h">>
TmpName == <<"t", "m", "p">>
DotDot == <<".", ".">>

Names == {HomeName, <<"h", "x">>, TmpName, <<"t", "m", "p", "x">>, <<"e", "t", "c">>, DotDot}

\* os.path.expanduser("~"), the system temporary directory and os.getcwd(),
\* as lists of components.
HomeDir == <<HomeName>>
SystemTmpDir == <<TmpName>>
Cwd == <<<<"o", "p", "t">>>>

RECURSIVE SeqsUpTo(_, _)
SeqsUpTo(S, n) ==
    IF n = 0 THEN {<<>>}
    ELSE LET shorter == SeqsUpTo(S, n - 1)
         IN  shorter \cup {Append(s, x) : s \in {t \in shorter : Len(t) = n - 1}, x \in S}

Paths == [abs : BOOLEAN, comps : SeqsUpTo(Names, MaxDepth)]

\* os.path.normpath on the components: ".." removes the component before it
\* (and is dropped at the root).
RECURSIVE Normalize(_, _)
Normalize(comps, acc) ==
    IF comps = <<>> THEN acc
    ELSE IF Head(comps) = DotDot
         THEN Normalize(Tail(comps), IF acc = <<>> THEN acc ELSE SubSeq(acc, 1, Len(acc) - 1))
         ELSE Normalize(Tail(comps), Append(acc, Head(comps)))

\* os.path.abspath: a relative path is joined to the working directory.
abspath(p) == Normalize(IF p.abs THEN p.comps ELSE Cwd \o p.comps, <<>>)

\* The string of an absolute path: "/" + "/".join(comps).
RECURSIVE PathStr(_)
PathStr(comps) ==
    IF comps = <<>> THEN <<"/">>
    ELSE IF Len(comps) = 1 THEN <<"/">> \o comps[1]
    ELSE PathStr(SubSeq(comps, 1, Len(comps) - 1)) \o <<"/">> \o comps[Len(comps)]

\* str.startswith
startswith(s, prefix) ==
    Len(prefix) <= Len(s) /\ SubSeq(s, 1, Len(prefix)) = prefix

\* The literal "/tmp" of the confinement check.
TmpLiteral == <<"/", "t", "m", "p">>

\* The confinement check of file_read and file_write.
Allowed(abs_path) ==
    startswith(PathStr(abs_path), PathStr(HomeDir)) \/ startswith(PathStr(abs_path), TmpLiteral)

\* What the file system answers to the calls a handler makes: it is outside
\* the program, so each call may succeed or raise OSError.
FsEnv == [mkdirOk : BOOLEAN, openOk : BOOLEAN]

\* input_data.get("path", "")
NoPath == [abs |-> FALSE, comps |-> <<>>]
PathOf(input) == IF "path" \in DOMAIN input THEN input.path ELSE NoPath

\* ToolExecutor.execute_file_read: the result and the accesses made.
execute_file_read(input, env) ==
    LET abs_path == abspath(PathOf(input))
    IN  IF ~Allowed(abs_path)
        THEN [ret |-> Err("Access denied: ", "Can only read files in home directory"),
              log |-> <<>>]
        ELSE IF ~env.openOk
        THEN [ret |-> Err("File read error: ", "OSError"),
              log |-> <<<<"open_r", abs_path>>>>]
        ELSE [ret |-> Ok({"content", "path", "size"}, <<"content", abs_path>>),
              log |-> <<<<"open_r", abs_path>>, <<"read", abs_path>>>>]

\* ToolExecutor.execute_file_write
execute_file_write(input, env) ==
    LET abs_path == abspath(PathOf(input))
        dir == IF abs_path = <<>> THEN <<>> ELSE SubSeq(abs_path, 1, Len(abs_path) - 1)
    IN  IF ~Allowed(abs_path)
        THEN [ret |-> Err("Access denied: ", "Can only write files in home directory"),
              log |-> <<>>]
        ELSE IF ~env.mkdirOk
        THEN [ret |-> Err("File write error: ", "OSError"),
              log |-> <<<<"makedirs", dir>>>>]
        ELSE IF ~env.openOk
        THEN [ret |-> Err("File write error: ", "OSError"),
              log |-> <<<<"makedirs", dir>>, <<"open_w", abs_path>>>>]
        ELSE [ret |-> Ok({"path", "bytes_written"}, <<"path", abs_path>>),
              log |-> <<<<"makedirs", dir>>, <<"open_w", abs_path>>, <<"write", abs_path>>>>]

FileInputs == {[path |-> p] : p \in Paths} \cup {<<>>}

\* ------------------------------------------------------------ code_execute
\* input_data.get("timeout", 30)
DefaultTimeout == 30

\* The submitted code: a string holding a program that runs for some seconds
\* and exits with some code, or a value that is no string.
Programs == [str : {TRUE}, seconds : (0..MaxSeconds) \cup {DefaultTimeout + 1}, exit : {0, 1}]
NotAString == [str |-> FALSE, seconds |-> 0, exit |-> 0]
EmptyProgram == [str |-> TRUE, seconds |-> 0, exit |-> 0]

\* A timeout is a number of seconds; 0 stands for a value that is no number.
CodeInputs ==
    {[code |-> c] : c \in Programs \cup {NotAString}}
        \cup {[code |-> c, timeout |-> t] : c \in Programs \cup {NotAString}, t \in 0..MaxSeconds}
        \cup {<<>>}

CodeOf(input) == IF "code" \in DOMAIN input THEN input.code ELSE EmptyProgram
TimeoutOf(input) == IF "timeout" \in DOMAIN input THEN input.timeout ELSE DefaultTimeout

\* What the system answers: whether the temporary file can be created,
\* whether the write to it succeeds, whether the child process can be spawned.
CodeEnv == [createOk : BOOLEAN, writeOk : BOOLEAN, spawnOk : BOOLEAN]

\* tempfile.NamedTemporaryFile picks a name no existing file has.
FreshTmp(existing) == CHOOSE n \in 1..(Cardinality(existing) + 1) : n \notin existing

\* ToolExecutor.execute_code: the result, the temporary file created (0: none)
\* and the temporary files that exist when it returns.
execute_code(input, env, existing) ==
    LET code == CodeOf(input)
        timeout == TimeoutOf(input)
        temp_path == FreshTmp(existing)
    IN  IF ~env.createOk
        THEN [ret |-> Err("Code execution error: ", "OSError"),
              temp |-> 0, files |-> existing]
        ELSE IF ~code.str \/ ~env.writeOk
        \* f.write(code) raises inside the with block, before the inner try:
        \* the file is closed and stays (delete=False)
        THEN [ret |-> Err("Code execution error: ", IF code.str THEN "OSError" ELSE "TypeError"),
              temp |-> temp_path, files |-> existing \cup {temp_path}]
        \* from here on the finally clause unlinks temp_path
        ELSE IF timeout = 0 \/ ~env.spawnOk
        THEN [ret |-> Err("Code execution error: ", IF env.spawnOk THEN "TypeError" ELSE "OSError"),
              temp |-> temp_path, files |-> existing]
        ELSE IF code.seconds > timeout
        THEN [ret |-> Err("Code execution timed out after ", ToString(timeout) \o "s"),
              temp |-> temp_path, files |-> existing]
        ELSE [ret |-> [success |-> code.exit = 0,
                       keys |-> {"success", "stdout", "stderr", "return_code"},
                       error |-> <<>>, payload |-> <<"return_code", code.exit>>],
              temp |-> temp_path, files |-> existing]

\* -------------------------------------------------------------- calculator
\* The expression is given by the syntax tree ast.parse builds from it; a
\* string that does not parse is the tree SyntaxError. A node has a kind, an
\* operator (BinOp, UnaryOp), a literal value (Constant) and its children.
NoLiteral == [t |-> "none", n |-> 0]
Node(kind, op, val, args) == [kind |-> kind, op |-> op, val |-> val, args |-> args]

\* Literals: the integers 0, 1, 2 and a string; a name.
Leaves ==
    {Node("Constant", "", [t |-> "int", n |-> k], <<>>) : k \in 0..2}
        \cup {Node("Constant", "", [t |-> "str", n |-> 0], <<>>), Node("Name", "", NoLiteral, <<>>)}

BinOps == {"Add", "Sub", "Mult", "Div", "Pow", "Mod"}
\* One-child nodes: -x, +x, x.attr, x()
UnaryForms == {<<"UnaryOp", "USub">>, <<"UnaryOp", "UAdd">>, <<"Attribute", "">>, <<"Call", "">>}

RECURSIVE TreesOfSize(_)
TreesOfSize(n) ==
    IF n = 1 THEN Leaves
    ELSE {Node(f[1], f[2], NoLiteral, <<t>>) : f \in UnaryForms, t \in TreesOfSize(n - 1)}
            \cup UNION {{Node("BinOp", op, NoLiteral, <<l, r>>) :
                            op \in BinOps, l \in TreesOfSize(i), r \in TreesOfSize(n - 1 - i)} :
                        i \in 1..(n - 2)}

SyntaxError == Node("SyntaxError", "", NoLiteral, <<>>)
Expressions == UNION {TreesOfSize(n) : n \in 1..MaxNodes} \cup {SyntaxError}

\* Numbers: a rational n/d in lowest terms (d > 0), float or int as Python
\* types it; Inexact is a float or complex result that is no rational (never
\* zero within the trees modelled).
RECURSIVE Gcd(_, _)
Gcd(a, b) == IF b = 0 THEN a ELSE Gcd(b, a % b)
Abs(x) == IF x < 0 THEN -x ELSE x
Rat(n, d, isFloat) ==
    LET g == Gcd(Abs(n), Abs(d))
        sign == IF d < 0 THEN -1 ELSE 1
    IN  [t |-> "q", n |-> sign * (n \div g), d |-> sign * (d \div g), f |-> isFloat,
         c |-> FALSE]
Inexact == [t |-> "inexact", n |-> 1, d |-> 1, f |-> TRUE, c |-> FALSE]
\* A complex result: a negative number raised to a fractional power.
InexactComplex == [t |-> "inexact", n |-> 1, d |-> 1, f |-> TRUE, c |-> TRUE]
IsZero(x) == x.t = "q" /\ x.n = 0

RECURSIVE IntPow(_, _)
IntPow(b, e) == IF e = 0 THEN 1 ELSE b * IntPow(b, e - 1)

Raised(what) == [ok |-> FALSE, val |-> Inexact, err |-> what]
Value(v) == [ok |-> TRUE, val |-> v, err |-> ""]

\* operator.pow
pow(a, b) ==
    IF a.t = "inexact" THEN Value(IF IsZero(b) THEN Rat(1, 1, TRUE) ELSE Inexact)
    ELSE IF b.t = "inexact" THEN Value(Inexact)
    ELSE IF b.d = 1 /\ b.n >= 0
    THEN Value(Rat(IntPow(a.n, b.n), IntPow(a.d, b.n), a.f \/ b.f))
    ELSE IF a.n = 0
    THEN IF b.n < 0 THEN Raised("ZeroDivisionError") ELSE Value(Rat(0, 1, TRUE))
    ELSE IF b.d = 1
    THEN Value(Rat(IntPow(a.d, -b.n), IntPow(a.n, -b.n), TRUE))
    ELSE IF a.n = a.d THEN Value(Rat(1, 1, TRUE))
    ELSE IF a.n < 0 THEN Value(InexactComplex)
    ELSE Value(Inexact)

\* operator.add, sub, mul, truediv, pow on the values.
Arith(op, a, b) ==
    IF op = "Pow" THEN pow(a, b)
    ELSE IF op = "Div"
    THEN IF IsZero(b) THEN Raised("ZeroDivisionError")
         ELSE IF IsZero(a) THEN Value(Rat(0, 1, TRUE))
         ELSE IF a.t = "inexact" \/ b.t = "inexact" THEN Value(Inexact)
         ELSE Value(Rat(a.n * b.d, a.d * b.n, TRUE))
    ELSE IF op = "Mult"
    THEN IF IsZero(a) \/ IsZero(b) THEN Value(Rat(0, 1, a.f \/ b.f))
         ELSE IF a.t = "inexact" \/ b.t = "inexact" THEN Value(Inexact)
         ELSE Value(Rat(a.n * b.n, a.d * b.d, a.f \/ b.f))
    ELSE IF a.t = "inexact" \/ b.t = "inexact" THEN Value(Inexact)
    ELSE IF op = "Add" THEN Value(Rat(a.n * b.d + b.n * a.d, a.d * b.d, a.f \/ b.f))
    ELSE Value(Rat(a.n * b.d - b.n * a.d, a.d * b.d, a.f \/ b.f))

\* The table ops applied: a complex operand makes the result complex.
ApplyBin(op, a, b) ==
    LET r == Arith(op, a, b)
    IN  IF r.ok THEN Value([r.val EXCEPT !.c = a.c \/ b.c \/ r.val.c]) ELSE r

\* operator.neg
neg(a) == IF a.t = "inexact" THEN a ELSE Rat(-a.n, a.d, a.f)

\* The keys of the table ops.
ops == {"Add", "Sub", "Mult", "Div", "Pow", "USub"}

\* isinstance(node, ast.Constant): any literal passes for a number
IsNumAnyConstant(node) == node.kind = "Constant"

\* isinstance(node, ast.Num): a literal that is a number
IsNum(node) == node.kind = "Constant" /\ node.val.t = "int"

\* eval_expr on the node at position pos of the tree: the value or the
\* exception raised, and the positions eval_expr was called on.
RECURSIVE eval_expr(_, _)
eval_expr(node, pos) ==
    IF IsNum(node)
    THEN [res |-> Value(Rat(node.val.n, 1, FALSE)), seen |-> <<pos>>]
    ELSE IF node.kind = "BinOp"
    THEN IF node.op \notin ops
         THEN [res |-> Raised("KeyError"), seen |-> <<pos>>]
         ELSE LET l == eval_expr(node.args[1], Append(pos, 1))
              IN  IF ~l.res.ok THEN [res |-> l.res, seen |-> <<pos>> \o l.seen]
                  ELSE LET r == eval_expr(node.args[2], Append(pos, 2))
                       IN  IF ~r.res.ok
                           THEN [res |-> r.res, seen |-> <<pos>> \o l.seen \o r.seen]
                           ELSE [res |-> ApplyBin(node.op, l.res.val, r.res.val),
                                 seen |-> <<pos>> \o l.seen \o r.seen]
    ELSE IF node.kind = "UnaryOp"
    THEN IF node.op \notin ops
         THEN [res |-> Raised("KeyError"), seen |-> <<pos>>]
         ELSE LET o == eval_expr(node.args[1], Append(pos, 1))
              IN  IF ~o.res.ok THEN [res |-> o.res, seen |-> <<pos>> \o o.seen]
                  ELSE [res |-> Value(neg(o.res.val)), seen |-> <<pos>> \o o.seen]
    ELSE [res |-> Raised("TypeError"), seen |-> <<pos>>]

\* input_data.get("expression", ""): the empty string does not parse.
ExpressionOf(input) == IF "expression" \in DOMAIN input THEN input.expression ELSE SyntaxError

\* ToolExecutor.execute_calculator: the result and the nodes evaluated.
execute_calculator(input) ==
    LET tree == ExpressionOf(input)
    IN  IF tree = SyntaxError
        THEN [ret |-> Err("Calculation error: ", "SyntaxError"), seen |-> <<>>]
        ELSE LET e == eval_expr(tree, <<>>)
             IN  IF e.res.ok
                 THEN [ret |-> Ok({"result"}, e.res.val), seen |-> e.seen]
                 ELSE [ret |-> Err("Calculation error: ", e.res.err), seen |-> e.seen]

CalcInputs == {[expression |-> e] : e \in Expressions} \cup {<<>>}

\* ------------------------------------------- web_search, csv_read, http_request
\* The credentials of a request: a dict (None behaves as the empty dict in
\* "if credentials").
Credentials == {<<>>, [other |-> "x"], [tavily_api_key |-> "key"]}

\* What the network answers to an outbound call: a response, an HTTP error
\* status (urllib.error.HTTPError) or no connection (urllib.error.URLError).
NetAnswers == {"ok", "httperror", "unreachable"}

\* ToolExecutor.execute_web_search: the result and the outbound calls made.
\* envKey is os.environ.get("TAVILY_API_KEY") ("" when it is not set).
execute_web_search(input, credentials, env) ==
    LET api_key == IF credentials # <<>>
                   THEN IF "tavily_api_key" \in DOMAIN credentials
                        THEN credentials.tavily_api_key ELSE ""
                   ELSE env.envKey
    IN  IF api_key # ""
        THEN IF env.net = "ok"
             THEN [ret |-> Ok({"results"}, <<"results">>), net |-> <<"api.tavily.com">>]
             ELSE [ret |-> Err("Search error: ", env.net), net |-> <<"api.tavily.com">>]
        ELSE [ret |-> Err("", "No search API key configured"), net |-> <<>>]

\* ToolExecutor.execute_csv_read: the result and the accesses made.
execute_csv_read(input, env) ==
    LET abs_path == abspath(PathOf(input))
    IN  IF ~env.openOk
        THEN [ret |-> Err("CSV read error: ", "OSError"),
              log |-> <<<<"open_r", abs_path>>>>]
        ELSE [ret |-> Ok({"data", "row_count", "columns"}, <<"data", abs_path>>),
              log |-> <<<<"open_r", abs_path>>, <<"read", abs_path>>>>]

\* ToolExecutor.execute_http_request: the result and the outbound calls made.
execute_http_request(input, env) ==
    IF env.net = "ok"
    THEN [ret |-> Ok({"status_code", "headers", "body"}, <<"body">>), net |-> <<"url">>]
    ELSE IF env.net = "httperror"
    THEN [ret |-> [success |-> FALSE, keys |-> {"success", "status_code", "error"},
                   error |-> <<"HTTP Error ", "status">>, payload |-> NoValue],
          net |-> <<"url">>]
    ELSE [ret |-> Err("HTTP request error: ", "URLError"), net |-> <<"url">>]

\* ------------------------------------------------------------------ execute
\* An input that is no dict: input_data.get raises AttributeError.
NotADict == [notADict |-> TRUE]
IsDict(input) == "notADict" \notin DOMAIN input

\* What one tool execution did: its result, its filesystem accesses, its
\* outbound calls, the temporary file it created, the temporary files that
\* exist afterwards, the syntax-tree nodes it evaluated.
Effects(r, log, net, temp, files, seen) ==
    [ret |-> r, log |-> log, net |-> net, temp |-> temp, files |-> files, seen |-> seen]

\* ToolExecutor.execute: tool_id is the identifier, a word.
execute(tool_id, input, credentials, env, existing) ==
    IF tool_id \notin {"calculator", "web_search", "file_read", "file_write",
                       "code_execute", "csv_read", "http_request"}
    THEN Effects(Err("Tool '" \o tool_id \o "'", " not implemented locally"),
                 <<>>, <<>>, 0, existing, <<>>)
    ELSE IF ~IsDict(input)
    \* the handler raises before its own try block; execute catches it
    THEN Effects(Err("", "'list' object has no attribute 'get'"),
                 <<>>, <<>>, 0, existing, <<>>)
    ELSE IF tool_id = "calculator"
    THEN LET r == execute_calculator(input)
         IN  Effects(r.ret, <<>>, <<>>, 0, existing, r.seen)
    ELSE IF tool_id = "web_search"
    THEN LET r == execute_web_search(input, credentials, env)
         IN  Effects(r.ret, <<>>, r.net, 0, existing, <<>>)
    ELSE IF tool_id = "file_read"
    THEN LET r == execute_file_read(input, env)
         IN  Effects(r.ret, r.log, <<>>, 0, existing, <<>>)
    ELSE IF tool_id = "file_write"
    THEN LET r == execute_file_write(input, env)
         IN  Effects(r.ret, r.log, <<>>, 0, existing, <<>>)
    ELSE IF tool_id = "code_execute"
    THEN LET r == execute_code(input, env, existing)
         IN  Effects(r.ret, <<>>, <<>>, r.temp, r.files, <<>>)
    ELSE IF tool_id = "csv_read"
    THEN LET r == execute_csv_read(input, env)
         IN  Effects(r.ret, r.log, <<>>, 0, existing, <<>>)
    ELSE LET r == execute_http_request(input, env)
         IN  Effects(r.ret, <<>>, r.net, 0, existing, <<>>)

\* The answers that matter to a tool; the others are held fixed.
EnvsFor(tool_id) ==
    [mkdirOk : IF tool_id = "file_write" THEN BOOLEAN ELSE {TRUE},
     openOk : IF tool_id \in {"file_read", "file_write", "csv_read"} THEN BOOLEAN ELSE {TRUE},
     createOk : IF tool_id = "code_execute" THEN BOOLEAN ELSE {TRUE},
     writeOk : IF tool_id = "code_execute" THEN BOOLEAN ELSE {TRUE},
     spawnOk : IF tool_id = "code_execute" THEN BOOLEAN ELSE {TRUE},
     net : IF tool_id \in {"web_search", "http_request"} THEN NetAnswers ELSE {"ok"},
     envKey : IF tool_id = "web_search" THEN {"", "envkey"} ELSE {""}]

\* The inputs drawn for each tool by a direct /tools/execute request.
SomeExpressions == TreesOfSize(1) \cup TreesOfSize(2) \cup {SyntaxError}
ToolInputs(tool_id) ==
    {NotADict, <<>>} \cup
    (IF tool_id = "calculator" THEN {[expression |-> e] : e \in SomeExpressions}
     ELSE IF tool_id \in {"file_read", "file_write", "csv_read"} THEN FileInputs
     ELSE IF tool_id = "code_execute" THEN CodeInputs
     ELSE IF tool_id = "web_search" THEN {[query |-> "q"]}
     ELSE IF tool_id = "http_request" THEN {[url |-> "u"]}
     ELSE {[a |-> 1]})

\* -------------------------------------------------------------------- text
\* A text is a sequence of tokens, each a run of characters: the literal
\* "[TOOL:", a space, a word (a run of \w characters), a bracket, a brace, a
\* piece of JSON, or other text.
TOOL == "[TOOL:"
SP == " "
RBRACKET == "]"
LBRACE == "{"
RBRACE == "}"
COMMA == ","
\* JSON members: "expression": "2+2" and "a": 1
M_EXPR == "\"expression\": \"2+2\""
M_A == "\"a\": 1"
\* "expression": "(-2)**(1/2)", whose value is a complex number
M_ROOT == "\"expression\": \"(-2)**(1/2)\""
\* the arguments of the other tools: "path": "/tmp/etc", "path": "/etc",
\* "code": "print(1)", "code": "exit(1)", "query": "q", "url": "u"
M_TMP == "\"path\": \"/tmp/etc\""
M_ETC == "\"path\": \"/etc\""
M_CODE == "\"code\": \"print(1)\""
M_EXIT == "\"code\": \"exit(1)\""
M_QUERY == "\"query\": \"q\""
M_URL == "\"url\": \"u\""
\* "o": , the key of a member whose value is an object
KEY_O == "\"o\":"
\* "expression": " , a member whose string value follows, closed by "
STR_OPEN == "\"expression\": \""
STR_CLOSE == "\""
\* text that is no JSON
BAD == "bad"
PLAIN == "The result is"

\* The tokens that are words: the tool identifiers.
Words == {"calculator", "web_search", "file_read", "file_write", "code_execute",
          "csv_read", "http_request", "nope"}

RECURSIVE SkipSpaces(_, _)
SkipSpaces(s, i) == IF i <= Len(s) /\ s[i] = SP THEN SkipSpaces(s, i + 1) ELSE i

\* (\w+): a word token is a whole run of \w characters.
SkipWord(s, i) == IF i <= Len(s) /\ s[i] \in Words THEN i + 1 ELSE i

\* The first index from i on that holds the token, 0 if none does.
RECURSIVE Find(_, _, _)
Find(s, i, tok) ==
    IF i > Len(s) THEN 0 ELSE IF s[i] = tok THEN i ELSE Find(s, i + 1, tok)

NoMatch == [ok |-> FALSE, tool_id |-> "", params_str |-> <<>>, end |-> 0]

\* The pattern \[TOOL:\s*(\w+)\]\s*(\{[^}]+) matched at index i: the second
\* group stops before the closing brace.
MatchAtOpenGroup(s, i) ==
    LET j == SkipSpaces(s, i + 1)
        k == SkipWord(s, j)
        l == SkipSpaces(s, k + 1)
        m == Find(s, l + 1, RBRACE)
    IN  IF /\ s[i] = TOOL
           /\ k > j
           /\ k <= Len(s) /\ s[k] = RBRACKET
           /\ l <= Len(s) /\ s[l] = LBRACE
           /\ m > l + 1
        THEN [ok |-> TRUE, tool_id |-> s[j], params_str |-> SubSeq(s, l, m - 1), end |-> m - 1]
        ELSE NoMatch

\* The pattern \[TOOL:\s*(\w+)\]\s*(\{[^}]*\}) matched at index i: the braces
\* may hold nothing.
MatchAtEmptyGroup(s, i) ==
    LET j == SkipSpaces(s, i + 1)
        k == SkipWord(s, j)
        l == SkipSpaces(s, k + 1)
        m == Find(s, l + 1, RBRACE)
    IN  IF /\ s[i] = TOOL
           /\ k > j
           /\ k <= Len(s) /\ s[k] = RBRACKET
           /\ l <= Len(s) /\ s[l] = LBRACE
           /\ m > l
        THEN [ok |-> TRUE, tool_id |-> s[j], params_str |-> SubSeq(s, l, m), end |-> m]
        ELSE NoMatch

\* The pattern \[TOOL:\s*(\w+)\]\s*(\{[^}]+\}) matched at index i.
MatchAt(s, i) ==
    LET j == SkipSpaces(s, i + 1)
        k == SkipWord(s, j)
        l == SkipSpaces(s, k + 1)
        m == Find(s, l + 1, RBRACE)
    IN  IF /\ s[i] = TOOL
           /\ k > j
           /\ k <= Len(s) /\ s[k] = RBRACKET
           /\ l <= Len(s) /\ s[l] = LBRACE
           /\ m > l + 1
        THEN [ok |-> TRUE, tool_id |-> s[j], params_str |-> SubSeq(s, l, m), end |-> m]
        ELSE NoMatch

\* re.findall(pattern, response): the matches from index i on, left to right,
\* not overlapping.
RECURSIVE findall(_, _)
findall(s, i) ==
    IF i > Len(s) THEN <<>>
    ELSE LET m == MatchAt(s, i)
         IN  IF m.ok THEN <<m>> \o findall(s, m.end + 1) ELSE findall(s, i + 1)

\* str.replace: every occurrence of old, left to right.
RECURSIVE replace(_, _, _)
replace(s, old, new) ==
    IF Len(s) < Len(old) THEN s
    ELSE IF SubSeq(s, 1, Len(old)) = old
    THEN new \o replace(SubSeq(s, Len(old) + 1, Len(s)), old, new)
    ELSE <<Head(s)>> \o replace(Tail(s), old, new)

\* "[TOOL:" in response
ContainsTool(s) == Find(s, 1, TOOL) # 0

\* -------------------------------------------------------------------- JSON
\* A decoded object is a dict: a function from its keys.
EmptyDict == <<>>
Put(d, k, v) == [x \in DOMAIN d \cup {k} |-> IF x = k THEN v ELSE d[x]]

\* The syntax tree of the expression 2+2.
TwoPlusTwo ==
    Node("BinOp", "Add", NoLiteral,
         <<Node("Constant", "", [t |-> "int", n |-> 2], <<>>),
           Node("Constant", "", [t |-> "int", n |-> 2], <<>>)>>)

\* The syntax tree of the expression (-2)**(1/2).
RootOfMinusTwo ==
    Node("BinOp", "Pow", NoLiteral,
         <<Node("UnaryOp", "USub", NoLiteral,
                <<Node("Constant", "", [t |-> "int", n |-> 2], <<>>)>>),
           Node("BinOp", "Div", NoLiteral,
                <<Node("Constant", "", [t |-> "int", n |-> 1], <<>>),
                  Node("Constant", "", [t |-> "int", n |-> 2], <<>>)>>)>>)

\* The key and the value of a member token.
Members == {M_EXPR, M_A, M_ROOT, M_TMP, M_ETC, M_CODE, M_EXIT, M_QUERY, M_URL}
MemberKey(tok) ==
    IF tok = M_A THEN "a"
    ELSE IF tok \in {M_TMP, M_ETC} THEN "path"
    ELSE IF tok \in {M_CODE, M_EXIT} THEN "code"
    ELSE IF tok = M_QUERY THEN "query"
    ELSE IF tok = M_URL THEN "url"
    ELSE "expression"
MemberValue(tok) ==
    IF tok = M_EXPR THEN TwoPlusTwo
    ELSE IF tok = M_ROOT THEN RootOfMinusTwo
    ELSE IF tok = M_TMP THEN [abs |-> TRUE, comps |-> <<TmpName, <<"e", "t", "c">>>>]
    ELSE IF tok = M_ETC THEN [abs |-> TRUE, comps |-> <<<<"e", "t", "c">>>>]
    ELSE IF tok = M_CODE THEN [str |-> TRUE, seconds |-> 0, exit |-> 0]
    ELSE IF tok = M_EXIT THEN [str |-> TRUE, seconds |-> 0, exit |-> 1]
    ELSE IF tok = M_QUERY THEN "q"
    ELSE IF tok = M_URL THEN "u"
    ELSE 1

JsonFail == [ok |-> FALSE, val |-> EmptyDict, next |-> 0]
MemberFail == [ok |-> FALSE, key |-> "", val |-> 0, next |-> 0]

\* The JSON decoder on the tokens from index i: an object, the members of an
\* object, one member. next is the index after what was decoded.
RECURSIVE ParseObject(_, _)
RECURSIVE ParseMembers(_, _, _)
RECURSIVE ParseMember(_, _)

ParseObject(s, i) ==
    IF i > Len(s) \/ s[i] # LBRACE THEN JsonFail
    ELSE LET j == SkipSpaces(s, i + 1)
         IN  IF j <= Len(s) /\ s[j] = RBRACE
             THEN [ok |-> TRUE, val |-> EmptyDict, next |-> j + 1]
             ELSE ParseMembers(s, j, EmptyDict)

ParseMembers(s, i, acc) ==
    IF i > Len(s) THEN JsonFail
    ELSE LET m == ParseMember(s, i)
         IN  IF ~m.ok THEN JsonFail
             ELSE LET j == SkipSpaces(s, m.next)
                  IN  IF j > Len(s) THEN JsonFail
                      ELSE IF s[j] = RBRACE
                      THEN [ok |-> TRUE, val |-> Put(acc, m.key, m.val), next |-> j + 1]
                      ELSE IF s[j] = COMMA
                      THEN ParseMembers(s, SkipSpaces(s, j + 1), Put(acc, m.key, m.val))
                      ELSE JsonFail

ParseMember(s, i) ==
    IF s[i] \in Members
    THEN [ok |-> TRUE, key |-> MemberKey(s[i]), val |-> MemberValue(s[i]), next |-> i + 1]
    ELSE IF s[i] = KEY_O
    THEN LET o == ParseObject(s, SkipSpaces(s, i + 1))
         IN  IF o.ok THEN [ok |-> TRUE, key |-> "o", val |-> o.val, next |-> o.next]
             ELSE MemberFail
    ELSE IF s[i] = STR_OPEN
    THEN LET c == Find(s, i + 1, STR_CLOSE)
         \* the string is the expression: whatever it holds here does not parse
         IN  IF c = 0 THEN MemberFail
             ELSE [ok |-> TRUE, key |-> "expression", val |-> SyntaxError, next |-> c + 1]
    ELSE MemberFail

\* json.loads: the whole string must be one value.
json_loads(s) ==
    LET o == ParseObject(s, SkipSpaces(s, 1))
    IN  IF o.ok /\ SkipSpaces(s, o.next) > Len(s) THEN o ELSE JsonFail

\* ------------------------------------------------------ process_tool_calls
\* json.dumps of a number (a float's digits are written as its fraction).
NumStr(v) ==
    IF v.t = "inexact" THEN "float"
    ELSE IF v.d = 1 /\ ~v.f THEN ToString(v.n)
    ELSE ToString(v.n) \o "/" \o ToString(v.d)

\* json.dumps raises TypeError on a complex number.
Serializable(r) == ~("result" \in r.keys /\ r.payload.c)

\* json.dumps(result.get('result', result.get('error', 'No result')))
Summary(r) ==
    IF "result" \in r.keys THEN NumStr(r.payload)
    ELSE IF "error" \in r.keys THEN "\"" \o r.error[1] \o r.error[2] \o "\""
    ELSE "\"No result\""

\* The entries of tool_results.
ResultEntry(tool_id, params, r) ==
    [tool |-> tool_id, keys |-> {"tool", "input", "result"}, input |-> params,
     result |-> r, error |-> ""]
ErrorEntry(tool_id, e) ==
    [tool |-> tool_id, keys |-> {"tool", "error"}, input |-> EmptyDict,
     result |-> NoRet, error |-> e]

\* f"[TOOL: {tool_id}] {params_str}"
old_text(tool_id, params_str) == <<TOOL, SP, tool_id, RBRACKET, SP>> \o params_str

\* f"[Tool {tool_id} result: {json.dumps(...)}]"
new_text(tool_id, r) == <<"[Tool ", tool_id, " result: ", Summary(r), RBRACKET>>

\* The rest of the try block once execute returned e for the decoded params:
\* the entry appended, then the marker replaced by the summary, unless
\* json.dumps raises, which the except clause records.
Record(m, params, e, acc) ==
    LET done == [acc EXCEPT
                   !.tool_results = Append(@, ResultEntry(m.tool_id, params, e.ret)),
                   !.log = @ \o e.log,
                   !.net = @ \o e.net,
                   !.temp = IF e.temp # 0 THEN e.temp ELSE @,
                   !.files = e.files,
                   !.seen = @ \o e.seen]
    IN  IF ~Serializable(e.ret)
        THEN [done EXCEPT !.tool_results = Append(@, ErrorEntry(m.tool_id, "TypeError"))]
        ELSE [done EXCEPT
                !.response = replace(@, old_text(m.tool_id, m.params_str),
                                     new_text(m.tool_id, e.ret))]

\* The try block for the match m once json.loads returned p.
Decoded(m, p, acc, credentials, env) ==
    IF ~p.ok
    THEN [acc EXCEPT !.tool_results = Append(@, ErrorEntry(m.tool_id, "JSONDecodeError"))]
    ELSE Record(m, p.val, execute(m.tool_id, p.val, credentials, env, acc.files), acc)

\* The body of the loop of process_tool_calls for the match m, on the state
\* acc the earlier matches left.
ProcessMatch(m, acc, credentials, env) ==
    Decoded(m, json_loads(m.params_str), acc, credentials, env)

RECURSIVE ProcessMatches(_, _, _, _)
ProcessMatches(matches, acc, credentials, env) ==
    IF matches = <<>> THEN acc
    ELSE ProcessMatches(Tail(matches), ProcessMatch(Head(matches), acc, credentials, env),
                        credentials, env)

\* RequestHandler.process_tool_calls: the rewritten response, tool_results
\* and what the executed tools did.
process_tool_calls(response, credentials, env, existing) ==
    ProcessMatches(findall(response, 1),
                   [response |-> response, tool_results |-> <<>>, log |-> <<>>, net |-> <<>>,
                    temp |-> 0, files |-> existing, seen |-> <<>>],
                   credentials, env)

\* ---------------------------------------------------------------- adapters
Get(d, k, default) == IF k \in DOMAIN d THEN d[k] ELSE default

Message(role, content) == [role |-> role, content |-> content]

\* The payload an adapter sends: its keys, its message array and the content
\* of its system field (<<>> when it has none).
Payload(keys, messages, system) == [keys |-> keys, messages |-> messages, system |-> system]

\* call_ollama, call_openai, call_groq, call_xai: the messages go as they are.
InlinePayload(provider, messages) ==
    IF provider = "ollama"
    THEN Payload({"model", "messages", "stream", "options"}, messages, <<>>)
    ELSE Payload({"model", "messages", "temperature"}, messages, <<>>)

\* call_anthropic: system_msg is the content of the last system message.
RECURSIVE LastSystem(_)
LastSystem(messages) ==
    IF messages = <<>> THEN <<>>
    ELSE IF messages[Len(messages)].role = "system" THEN messages[Len(messages)].content
    ELSE LastSystem(SubSeq(messages, 1, Len(messages) - 1))

NonSystem(messages) == SelectSeq(messages, LAMBDA msg : msg.role # "system")

AnthropicPayload(messages) ==
    LET system_msg == LastSystem(messages)
    IN  Payload({"model", "max_tokens", "messages", "temperature"}
                    \cup (IF system_msg # <<>> THEN {"system"} ELSE {}),
                NonSystem(messages), system_msg)

\* call_google: the other messages become contents, with the role user or model.
GooglePayload(messages) ==
    LET chat_msgs == NonSystem(messages)
    IN  Payload({"contents", "generationConfig"},
                [i \in 1..Len(chat_msgs) |->
                    Message(IF chat_msgs[i].role = "user" THEN "user" ELSE "model",
                            chat_msgs[i].content)],
                <<>>)

BuildPayload(provider, messages) ==
    IF provider = "anthropic" THEN AnthropicPayload(messages)
    ELSE IF provider = "google" THEN GooglePayload(messages)
    ELSE InlinePayload(provider, messages)

\* What the provider answers: a reply text, a response without the expected
\* fields, an HTTP error status, or no connection.
Reply(text) == [kind |-> "reply", text |-> text]
Failure(kind) == [kind |-> kind, text |-> <<>>]

\* The call_<provider> method: the text it returns, or the exception it
\* raises (urlopen raises HTTPError and URLError; a missing field raises
\* KeyError, except in call_ollama, which reads with defaults).
CallProvider(provider, net) ==
    IF net.kind = "reply" THEN [raised |-> "", text |-> net.text]
    ELSE IF net.kind = "malformed"
    THEN IF provider = "ollama" THEN [raised |-> "", text |-> <<"No response">>]
         ELSE [raised |-> "KeyError", text |-> <<>>]
    ELSE IF net.kind = "rejected" THEN [raised |-> "HTTPError", text |-> <<>>]
    ELSE [raised |-> "URLError", text |-> <<>>]

\* ------------------------------------------------------------- handle_chat
\* The if/elif chain over provider: the adapter called, "none" in the else
\* branch. A provider identifier is a text.
AdapterForOllamaByDefault(provider) ==
    IF provider \in {<<"ollama">>, <<"openai">>, <<"anthropic">>, <<"groq">>, <<"google">>,
                     <<"xai">>}
    THEN provider[1] ELSE "ollama"

AdapterFor(provider) ==
    IF provider \in {<<"ollama">>, <<"openai">>, <<"anthropic">>, <<"groq">>, <<"google">>,
                     <<"xai">>}
    THEN provider[1] ELSE "none"

\* The global current_config.
DefaultConfig ==
    [name |-> <<"AI Assistant">>, goal |-> <<"Help users with various tasks">>,
     personality |-> <<"You are a helpful, friendly AI assistant.">>,
     provider |-> <<"ollama">>, model |-> <<"llama3.2">>]

RECURSIVE ToolLines(_)
ToolLines(tools) ==
    IF tools = <<>> THEN <<>> ELSE <<"- ", Head(tools), "\n">> \o ToolLines(Tail(tools))

\* The system prompt: personality, goal, tool catalog.
SystemContent(config, tools_to_use) ==
    LET personality == Get(config, "personality", <<"You are a helpful assistant.">>)
        goal == Get(config, "goal", <<>>)
    IN  personality
        \o (IF goal # <<>> THEN <<"\n\nYour goal: ">> \o goal ELSE <<>>)
        \o (IF tools_to_use # <<>>
            THEN <<"\n\nYou have access to the following tools:\n">> \o ToolLines(tools_to_use)
                 \o <<"\nTo use a tool, respond with: [TOOL: tool_name] {\"param\": \"value\"}">>
            ELSE <<>>)

\* The messages list handle_chat builds.
BuildMessages(data, config) ==
    <<Message("system", SystemContent(config, Get(data, "tools", <<>>)))>>
        \o Get(data, "history", <<>>)
        \o <<Message("user", Get(data, "message", <<>>))>>

NoPayload == Payload({}, <<>>, <<>>)
Body(keys, response, results) ==
    [keys |-> keys, response |-> response, tool_results |-> results]

\* What process_tool_calls would return had it nothing to do.
Untouched(text, existing) ==
    [response |-> text, tool_results |-> <<>>, log |-> <<>>, net |-> <<>>, temp |-> 0,
     files |-> existing, seen |-> <<>>]

\* if "[TOOL:" in response: the response is looked through for markers (a
\* text without "[TOOL:" comes back as it is).
ToolCalls(answer, credentials, env, existing) ==
    IF answer.raised = "" /\ ContainsTool(answer.text)
    THEN process_tool_calls(answer.text, credentials, env, existing)
    ELSE Untouched(answer.text, existing)

\* What handle_chat sends once the adapter answered and the tool calls t
\* were processed; calls are the outbound calls made.
Answer(handed, answer, t, calls, existing) ==
    IF answer.raised # ""
    \* except Exception: the 500 answer
    THEN [sent |-> handed, status |-> <<500>>,
          body |-> Body({"response"}, <<"Error: ", answer.raised>>, <<>>),
          tools |-> [Untouched(answer.text, existing) EXCEPT !.net = calls]]
    ELSE IF \E i \in 1..Len(t.tool_results) :
                /\ "result" \in t.tool_results[i].keys
                /\ ~Serializable(t.tool_results[i].result)
    \* json.dumps raises in send_json_response after the 200 status line
    \* and the headers were sent: the 500 answer follows them
    THEN [sent |-> handed, status |-> <<200, 500>>,
          body |-> Body({"response"}, <<"Error: ", "TypeError">>, <<>>),
          tools |-> [t EXCEPT !.net = calls]]
    ELSE [sent |-> handed, status |-> <<200>>,
          body |-> Body({"response", "tool_results"}, t.response, t.tool_results),
          tools |-> [t EXCEPT !.net = calls]]

\* The provider's answer handed to the tool-call processing.
Processed(handed, answer, t, existing) ==
    Answer(handed, answer, t,
           (IF handed.adapter = "none" THEN <<>> ELSE <<"provider:" \o handed.adapter>>)
               \o t.net,
           existing)

\* The if/elif chain of handle_chat for the adapter chosen.
Route(adapter, provider, messages, credentials, net, env, existing) ==
    IF adapter = "none"
    THEN Processed([adapter |-> "none", messages |-> <<>>, payload |-> NoPayload],
                   [raised |-> "", text |-> <<"Unknown provider: ">> \o provider],
                   ToolCalls([raised |-> "", text |-> <<"Unknown provider: ">> \o provider],
                             credentials, env, existing),
                   existing)
    ELSE Processed([adapter |-> adapter, messages |-> messages,
                    payload |-> BuildPayload(adapter, messages)],
                   CallProvider(adapter, net),
                   ToolCalls(CallProvider(adapter, net), credentials, env, existing),
                   existing)

\* RequestHandler.handle_chat: the adapter called with its messages and
\* payload, the status lines sent, the body, and what the tools did.
handle_chat(data, net, env, existing, cfg) ==
    LET config == Get(data, "config", cfg)
        provider == Get(config, "provider", <<"ollama">>)
    IN  Route(AdapterFor(provider), provider, BuildMessages(data, config),
              Get(config, "credentials", EmptyDict), net, env, existing)

\* ----------------------------------------------------------- chat requests
KnownProviders ==
    {<<"ollama">>, <<"openai">>, <<"anthropic">>, <<"groq">>, <<"google">>, <<"xai">>}

\* A provider identifier that holds a tool-call marker.
MarkerProvider == <<TOOL, SP, "calculator", RBRACKET, SP, LBRACE, M_EXPR, RBRACE>>

Providers == KnownProviders \cup {<<"mistral">>, <<>>, MarkerProvider}

Configs ==
    {EmptyDict}
        \cup {[provider |-> p] : p \in Providers}
        \cup {[provider |-> p, personality |-> s, goal |-> g] :
                p \in Providers, s \in {<<>>, <<"P">>}, g \in {<<>>, <<"G">>}}

HistoryMessages == {Message(r, <<"earlier">>) : r \in {"system", "user", "assistant"}}

ChatRequests ==
    {[message |-> <<"hi">>, config |-> c, history |-> h] :
        c \in Configs, h \in SeqsUpTo(HistoryMessages, MaxHistory)}
    \cup {[message |-> <<"hi">>, config |-> c, tools |-> <<"calculator">>] : c \in Configs}
    \cup {[message |-> <<"hi">>]}

\* A reply is made of segments: plain text and tool-call markers that differ
\* in their whitespace, their tool and their argument object.
RECURSIVE Spaces(_)
Spaces(n) == IF n = 0 THEN <<>> ELSE <<SP>> \o Spaces(n - 1)

Marker(ws1, tool_id, ws2, obj) ==
    <<TOOL>> \o Spaces(ws1) \o <<tool_id, RBRACKET>> \o Spaces(ws2) \o obj

ObjExpr == <<LBRACE, M_EXPR, RBRACE>>
ObjTwo == <<LBRACE, M_EXPR, COMMA, SP, M_A, RBRACE>>
ObjBlank == <<LBRACE, SP, RBRACE>>
ObjEmpty == <<LBRACE, RBRACE>>
ObjNested == <<LBRACE, KEY_O, SP, LBRACE, M_A, RBRACE, RBRACE>>
ObjBraceInString == <<LBRACE, STR_OPEN, RBRACE, STR_CLOSE, RBRACE>>
ObjBad == <<LBRACE, BAD, RBRACE>>
ObjRoot == <<LBRACE, M_ROOT, RBRACE>>
Objects ==
    {ObjExpr, ObjTwo, ObjBlank, ObjEmpty, ObjNested, ObjBraceInString, ObjBad, ObjRoot}

Segments ==
    {<<PLAIN>>, <<TOOL>>}
        \cup {Marker(w[1], "calculator", w[2], ObjExpr) :
                w \in {<<0, 1>>, <<1, 0>>, <<2, 1>>, <<1, 2>>}}
        \cup {Marker(1, id, 1, o) : id \in {"calculator", "nope"}, o \in Objects}

RECURSIVE Concat(_)
Concat(segs) == IF segs = <<>> THEN <<>> ELSE Head(segs) \o Concat(Tail(segs))

Replies == {Concat(segs) : segs \in SeqsUpTo(Segments, MaxSegments)}

\* The answers drawn where the routing is looked at, and where the parser is.
RoutingAnswers ==
    {Failure("unreachable"), Failure("rejected"), Failure("malformed"),
     Reply(<<PLAIN>>), Reply(<<PLAIN>> \o Marker(1, "calculator", 1, ObjExpr))}
ParserAnswers == {Reply(r) : r \in Replies}

ParserRequests == {[message |-> <<"hi">>, config |-> [provider |-> <<"openai">>]]}

NoEnv == CHOOSE e \in EnvsFor("nope") : TRUE

\* ------------------------------------------------- configuration and turns
\* The reads a chat turn makes of the process-wide configuration: for each
\* field the version it was read from (-1: not read from it).
NoReads == [provider |-> -1, model |-> -1, apiKey |-> -1, credentials |-> -1]

\* handle_chat by its steps: pc is where the turn stands, own whether the
\* request carries its own config, marker whether the reply holds "[TOOL:".
NoTurn == [pc |-> "idle", own |-> FALSE, marker |-> FALSE, read |-> NoReads]

\* agent_runner.py: get_default_config()
get_default_config ==
    [name |-> "AI Assistant", goal |-> "Help users with their questions",
     personality |-> "You are a friendly and helpful AI assistant.",
     provider |-> "ollama", model |-> "llama3.2", apiKey |-> ""]

\* agent_runner.py: the coroutines that serve /chat at the same time, and
\* the state of one that serves nothing.
Coroutines == 1..MaxCoroutines
Free == [pc |-> "free", adapter |-> "none", model |-> "", api_key |-> "", read |-> NoReads]

\* ---------------------------------------------------------------- actions
\* The state once main has started the server: process is the request being
\* served, cfg and acfg the configurations main left.
Started(process, cfg, acfg) ==
    /\ call = process
    /\ ret = NoRet
    /\ fsLog = <<>>
    /\ tmpFiles = {}
    /\ tempPath = 0
    /\ visited = <<>>
    /\ netLog = <<>>
    /\ current_config = cfg
    /\ sent = [adapter |-> "none", messages |-> <<>>, payload |-> NoPayload]
    /\ status = <<>>
    /\ body = Body({}, <<>>, <<>>)
    /\ tool_results = <<>>
    /\ version = 0
    /\ turn = NoTurn
    /\ agent_config = acfg
    /\ agent_version = 0
    /\ coroutines = [c \in Coroutines |-> Free]

\* agent_server.py started without a configuration file.
Init == Started([op |-> "none"], DefaultConfig, get_default_config)

\* A server that takes a request while a chat turn is being served
\* (socketserver.ThreadingMixIn).
IdleOrServingTurn == call.op \in {"none", "turn"}

\* The server takes one request at a time (HTTPServer.serve_forever).
Idle == call.op = "none"

\* The handler has answered: the server waits for the next request.
Respond ==
    /\ ~Idle
    /\ call' = [op |-> "none"]
    /\ ret' = NoRet
    /\ fsLog' = <<>>
    /\ tempPath' = 0
    /\ visited' = <<>>
    /\ netLog' = <<>>
    /\ sent' = [adapter |-> "none", messages |-> <<>>, payload |-> NoPayload]
    /\ status' = <<>>
    /\ body' = Body({}, <<>>, <<>>)
    /\ tool_results' = <<>>
    /\ UNCHANGED <<tmpFiles, current_config, configVars>>

Calculator ==
    /\ Idle
    /\ \E input \in CalcInputs :
        LET r == execute_calculator(input)
        IN  /\ call' = [op |-> "calculator", input |-> input]
            /\ ret' = r.ret
            /\ visited' = r.seen
            /\ UNCHANGED <<fsLog, tmpFiles, tempPath, netLog, current_config, chatVars, configVars>>

NextCalc == Calculator \/ Respond

SpecCalc == Init /\ [][NextCalc]_vars

FileRead ==
    /\ Idle
    /\ \E input \in FileInputs, env \in FsEnv :
        LET r == execute_file_read(input, env)
        IN  /\ call' = [op |-> "file_read", input |-> input]
            /\ ret' = r.ret
            /\ fsLog' = r.log
            /\ UNCHANGED <<tmpFiles, tempPath, visited, netLog, current_config, chatVars, configVars>>

FileWrite ==
    /\ Idle
    /\ \E input \in FileInputs, env \in FsEnv :
        LET r == execute_file_write(input, env)
        IN  /\ call' = [op |-> "file_write", input |-> input]
            /\ ret' = r.ret
            /\ fsLog' = r.log
            /\ UNCHANGED <<tmpFiles, tempPath, visited, netLog, current_config, chatVars, configVars>>

CodeExecute ==
    /\ Idle
    /\ Cardinality(tmpFiles) < MaxTmpFiles
    /\ \E input \in CodeInputs, env \in CodeEnv :
        LET r == execute_code(input, env, tmpFiles)
        IN  /\ call' = [op |-> "code_execute", input |-> input]
            /\ ret' = r.ret
            /\ tempPath' = r.temp
            /\ tmpFiles' = r.files
            /\ UNCHANGED <<fsLog, visited, netLog, current_config, chatVars, configVars>>

NextCode == CodeExecute \/ Respond

SpecCode == Init /\ [][NextCode]_vars

\* RequestHandler.handle_tool_execute: POST /tools/execute.
ToolExecute ==
    /\ Idle
    /\ Cardinality(tmpFiles) < MaxTmpFiles
    /\ \E tool_id \in Words, creds \in Credentials :
        \E input \in ToolInputs(tool_id), env \in EnvsFor(tool_id) :
            LET r == execute(tool_id, input, creds, env, tmpFiles)
            IN  /\ call' = [op |-> "execute", tool |-> tool_id, input |-> input,
                             credentials |-> creds, env |-> env]
                /\ ret' = r.ret
                /\ fsLog' = r.log
                /\ netLog' = r.net
                /\ tempPath' = r.temp
                /\ tmpFiles' = r.files
                /\ visited' = r.seen
                /\ UNCHANGED <<current_config, chatVars, configVars>>

NextExec == ToolExecute \/ Respond

SpecExec == Init /\ [][NextExec]_vars

\* RequestHandler.handle_chat: POST /chat, with the provider's answer.
\* What a /chat request leaves behind: r is what handle_chat returned.
Chatted(data, net, r) ==
    /\ call' = [op |-> "chat", data |-> data, net |-> net]
    /\ sent' = r.sent /\ status' = r.status /\ body' = r.body
    /\ fsLog' = r.tools.log /\ netLog' = r.tools.net
    /\ tempPath' = r.tools.temp /\ tmpFiles' = r.tools.files
    /\ visited' = r.tools.seen
    /\ tool_results' = r.tools.tool_results
    /\ UNCHANGED <<ret, current_config, configVars>>

Chat(requests, answers) ==
    /\ Idle
    /\ Cardinality(tmpFiles) < MaxTmpFiles
    /\ \E data \in requests, net \in answers :
        Chatted(data, net, handle_chat(data, net, NoEnv, tmpFiles, current_config))

NextChat == Chat(ChatRequests, RoutingAnswers) \/ Respond

SpecChat == Init /\ [][NextChat]_vars

NextParse == Chat(ParserRequests, ParserAnswers) \/ Respond

SpecParse == Init /\ [][NextParse]_vars

NextFiles == FileRead \/ FileWrite \/ Respond

SpecFiles == Init /\ [][NextFiles]_vars

\* A directory holds a path when the directory's components begin the path's.
InDirectory(dir, abs_path) ==
    Len(dir) <= Len(abs_path) /\ SubSeq(abs_path, 1, Len(dir)) = dir

OutsideHomeAndTmp(abs_path) ==
    ~InDirectory(HomeDir, abs_path) /\ ~InDirectory(SystemTmpDir, abs_path)

\* C1: a file_read or file_write whose path resolves outside the home
\* directory and outside the temporary directory returns an access-denied
\* failure and makes no filesystem access.
C1_DeniedOutsideSandbox ==
    (call.op \in {"file_read", "file_write"}
        /\ OutsideHomeAndTmp(abspath(PathOf(call.input))))
    => (~ret.success /\ ret.error[1] = "Access denied: " /\ fsLog = <<>>)


\* C2: when code_execute returns, by any exit path, the temporary file it
\* created no longer exists.
C2_TempFileGone ==
    (call.op = "code_execute" /\ tempPath # 0) => tempPath \notin tmpFiles

\* A node the restricted grammar does not allow: anything but a numeric
\* literal, a binary +, -, *, /, ** and a unary minus.
Disallowed(node) ==
    \/ node.kind \notin {"Constant", "BinOp", "UnaryOp"}
    \/ node.kind = "Constant" /\ node.val.t # "int"
    \/ node.kind = "BinOp" /\ node.op \notin {"Add", "Sub", "Mult", "Div", "Pow"}
    \/ node.kind = "UnaryOp" /\ node.op # "USub"

RECURSIVE NodeAt(_, _)
NodeAt(tree, pos) == IF pos = <<>> THEN tree ELSE NodeAt(tree.args[Head(pos)], Tail(pos))

RECURSIVE ContainsDisallowed(_)
ContainsDisallowed(tree) ==
    Disallowed(tree) \/ \E i \in 1..Len(tree.args) : ContainsDisallowed(tree.args[i])

\* The position lies strictly inside a disallowed node of the tree.
InsideDisallowed(tree, pos) ==
    \E k \in 0..(Len(pos) - 1) : Disallowed(NodeAt(tree, SubSeq(pos, 1, k)))

\* C3: an expression whose syntax tree holds a node outside the restricted
\* grammar yields success false with a 'Calculation error' message, and
\* eval_expr is called on no node inside a disallowed construct.
C3_CalculatorRejects ==
    (call.op = "calculator" /\ ExpressionOf(call.input) # SyntaxError
        /\ ContainsDisallowed(ExpressionOf(call.input)))
    => /\ ~ret.success
       /\ ret.error[1] = "Calculation error: "
       /\ \A i \in 1..Len(visited) : ~InsideDisallowed(ExpressionOf(call.input), visited[i])

\* A disallowed call sits to the right of an evaluated literal: 1 + f().
C3_Witness ==
    /\ call.op = "calculator"
    /\ ExpressionOf(call.input) # SyntaxError
    /\ ExpressionOf(call.input).kind = "BinOp"
    /\ ExpressionOf(call.input).op \in ops
    /\ IsNum(ExpressionOf(call.input).args[1])
    /\ ExpressionOf(call.input).args[2].kind = "Call"
    /\ visited = <<<<>>, <<1>>, <<2>>>>
    /\ ~ret.success

\* C10: ToolExecutor.execute returns a dict with a success flag and either a
\* result payload (success true) or an error string (success false); an
\* unknown identifier yields success false with a 'not implemented' error.
C10_UniformResult ==
    call.op = "execute"
    => /\ "success" \in ret.keys
       /\ ret.success => ret.keys \ {"success", "error"} # {}
       /\ ~ret.success => ("error" \in ret.keys /\ ret.error # <<>>)
       /\ call.tool = "nope" => (~ret.success /\ ret.error[2] = " not implemented locally")

\* ------------------------------------------------------ claims on /chat
\* The effective config of the chat request being served and its provider.
EffectiveConfig == Get(call.data, "config", current_config)
EffectiveProvider == Get(EffectiveConfig, "provider", <<"ollama">>)

\* C4: the response text /chat returns holds no raw tool-call marker: every
\* marker the pattern matches in the provider's reply, whatever its
\* whitespace and whether or not its arguments decode, has been replaced by
\* a summary, so the pattern matches nowhere in the returned text.
C4_NoRawMarker ==
    call.op = "chat" => findall(body.response, 1) = <<>>

\* The index of the "[TOOL:" of a text that holds exactly one, else 0.
OnlyToolAt(s) ==
    LET i == Find(s, 1, TOOL)
    IN  IF i # 0 /\ Find(s, i + 1, TOOL) = 0 THEN i ELSE 0

\* The text holds '[TOOL: <id>] <JSON object>' at index i, the object being
\* valid JSON.
WellFormedAt(s, i) ==
    /\ i # 0 /\ i + 5 <= Len(s)
    /\ s[i + 1] = SP /\ s[i + 2] \in Words /\ s[i + 3] = RBRACKET /\ s[i + 4] = SP
    /\ ParseObject(s, i + 5).ok

\* The reply of the provider holds exactly one marker, well-formed with valid
\* JSON arguments.
OneWellFormedMarker ==
    /\ call.op = "chat"
    /\ call.net.kind = "reply"
    /\ sent.adapter # "none"
    /\ WellFormedAt(call.net.text, OnlyToolAt(call.net.text))

\* The identifier and the decoded argument object of that marker.
EmbeddedTool == call.net.text[OnlyToolAt(call.net.text) + 2]
EmbeddedObject == ParseObject(call.net.text, OnlyToolAt(call.net.text) + 5)

\* The entry records the tool and the complete argument object of the marker.
RecordsMarker(entry) ==
    /\ entry.tool = EmbeddedTool
    /\ "input" \in entry.keys
    /\ entry.input = EmbeddedObject.val

\* C5 as stated: a reply with exactly one well-formed marker whose argument
\* object is valid JSON gives exactly one tool_results entry, whose tool is
\* the marker's identifier and whose input is the complete argument object.
C5_OneInvocation ==
    OneWellFormedMarker => (Len(tool_results) = 1 /\ RecordsMarker(tool_results[1]))

\* The argument object has something between its braces and no '}' before
\* its closing brace (no nested object, no '}' inside a string).
FlatObject ==
    LET l == OnlyToolAt(call.net.text) + 5
        close == Find(call.net.text, l + 1, RBRACE)
    IN  close > l + 1 /\ close = EmbeddedObject.next - 1

\* C5, amended: when moreover the argument object is not empty and holds no
\* '}' before its closing brace, the first tool_results entry records the
\* marker's identifier and its complete argument object; it is the only entry
\* unless the tool's result cannot be written as JSON, and then one error
\* entry for the same tool follows it.
C5_OneInvocationOfFlatObject ==
    (OneWellFormedMarker /\ FlatObject)
    => /\ Len(tool_results) >= 1
       /\ RecordsMarker(tool_results[1])
       /\ IF Serializable(tool_results[1].result)
          THEN Len(tool_results) = 1
          ELSE /\ Len(tool_results) = 2
               /\ tool_results[2].keys = {"tool", "error"}
               /\ tool_results[2].tool = EmbeddedTool

\* A reply with one marker between plain text whose object has two members:
\* one entry with the whole object, and the calculator's result.
C5_Witness ==
    /\ OneWellFormedMarker /\ FlatObject
    /\ Len(call.net.text) > 8
    /\ EmbeddedTool = "calculator"
    /\ DOMAIN EmbeddedObject.val = {"expression", "a"}
    /\ Len(tool_results) = 1
    /\ tool_results[1].input = EmbeddedObject.val
    /\ tool_results[1].result.success

\* C6: the message sequence handed to a provider adapter holds at most one
\* message with the role system, and if it holds one it is the first.
C6_OneSystemFirst ==
    (call.op = "chat" /\ sent.adapter # "none")
    => \A i \in 1..Len(sent.messages) : sent.messages[i].role = "system" => i = 1

\* The sequence handed to the adapter is canonical and has a system message:
\* one system message with some content, placed first.
CanonicalWithSystem ==
    /\ call.op = "chat"
    /\ sent.adapter # "none"
    /\ Len(sent.messages) >= 1
    /\ sent.messages[1].role = "system"
    /\ sent.messages[1].content # <<>>
    /\ \A i \in 2..Len(sent.messages) : sent.messages[i].role # "system"

\* The contents of the messages that are not system messages, in order.
OtherContents(messages) ==
    LET others == NonSystem(messages)
    IN  [i \in 1..Len(others) |-> others[i].content]

\* C7: on a canonical sequence with a system message the OpenAI, Groq and xAI
\* adapters send the system message as an element of the messages array; the
\* Anthropic and Google adapters send its content in a separate field of the
\* payload and no system entry in their array; every adapter keeps the other
\* messages in their order.
C7_SystemPlacement ==
    CanonicalWithSystem
    => /\ sent.adapter \in {"openai", "groq", "xai"}
            => sent.payload.messages = sent.messages
       /\ sent.adapter \in {"anthropic", "google"}
            => /\ sent.payload.system = sent.messages[1].content
               /\ \A i \in 1..Len(sent.payload.messages) :
                    sent.payload.messages[i].role # "system"
       /\ OtherContents(sent.payload.messages) = OtherContents(sent.messages)

\* C8: when the call to the provider fails (no connection, or an HTTP error
\* status) the adapter returns a description and handle_chat answers 200
\* with it as the response text; 500 is not used.
C8_ProviderFailureIs200 ==
    (call.op = "chat" /\ sent.adapter # "none" /\ call.net.kind \in {"unreachable", "rejected"})
    => /\ status = <<200>>
       /\ "response" \in body.keys
       /\ body.response # <<>>

\* The provider of the effective config is none of the six known ones.
UnknownProvider ==
    /\ call.op = "chat"
    /\ EffectiveProvider \notin KnownProviders

\* No call_<provider> method was called and no call to a provider was made.
NoProviderCall ==
    /\ sent.adapter = "none"
    /\ \A i \in 1..Len(netLog) : netLog[i] \notin {"provider:" \o p[1] : p \in KnownProviders}

MatchedMarkers == findall(call.net.text, 1)

\* C11: tool_results holds exactly one entry per matched marker, in the
\* textual order of the markers: a marker whose arguments do not decode, or
\* whose execution or summary fails, has one error entry, and the markers
\* after it are executed all the same.
C11_OneEntryPerMarker ==
    (call.op = "chat" /\ call.net.kind = "reply" /\ sent.adapter # "none")
    => /\ Len(tool_results) = Len(MatchedMarkers)
       /\ \A i \in 1..Len(tool_results) : tool_results[i].tool = MatchedMarkers[i].tool_id

\* ------------------------------------------------- chat turns that use tools
\* The tools of the dispatch table.
DispatchTable ==
    {"calculator", "web_search", "file_read", "file_write", "code_execute", "csv_read",
     "http_request"}

\* The argument objects a reply gives to a tool.
ArgumentsFor(tool_id) ==
    {ObjBlank} \cup
    (IF tool_id = "calculator" THEN {ObjExpr, ObjRoot}
     ELSE IF tool_id \in {"file_read", "file_write", "csv_read"}
     THEN {<<LBRACE, M_TMP, RBRACE>>, <<LBRACE, M_ETC, RBRACE>>}
     ELSE IF tool_id = "code_execute"
     THEN {<<LBRACE, M_CODE, RBRACE>>, <<LBRACE, M_EXIT, RBRACE>>}
     ELSE IF tool_id = "web_search" THEN {<<LBRACE, M_QUERY, RBRACE>>}
     ELSE {<<LBRACE, M_URL, RBRACE>>})

\* A chat request that carries credentials for the tools.
ToolRequests ==
    {[message |-> <<"hi">>, config |-> [provider |-> <<"openai">>, credentials |-> c]] :
        c \in Credentials}

\* POST /chat answered by a reply that calls one tool: the marker stands
\* between plain text, and the system answers the tool's calls with env.
ToolChat ==
    /\ Idle
    /\ Cardinality(tmpFiles) < MaxTmpFiles
    /\ \E tool_id \in DispatchTable, data \in ToolRequests :
        \E obj \in ArgumentsFor(tool_id), env \in EnvsFor(tool_id) :
            Chatted(data, Reply(<<PLAIN>> \o Marker(1, tool_id, 1, obj)),
                    handle_chat(data, Reply(<<PLAIN>> \o Marker(1, tool_id, 1, obj)), env,
                                tmpFiles, current_config))

NextTools == ToolChat \/ Respond

SpecTools == Init /\ [][NextTools]_vars

\* The summary written when the result dict has neither 'result' nor 'error'.
Placeholder == "\"No result\""

\* The summary text carries the outcome r of the execution: it is no
\* placeholder; it is the result where the dict has one and the error message
\* where the tool failed with one.
CarriesOutcome(text, r) ==
    /\ text # Placeholder
    /\ (r.success /\ "result" \in r.keys) => text = NumStr(r.payload)
    /\ (~r.success /\ "error" \in r.keys) => text = "\"" \o r.error[1] \o r.error[2] \o "\""

\* C12: the text substituted for an executed marker carries the outcome of
\* that execution, for every tool of the dispatch table: the result payload
\* of a tool that succeeded, the error message of one that failed, never a
\* placeholder unrelated to the outcome.
C12_SummaryCarriesOutcome ==
    (/\ call.op = "chat" /\ status = <<200>>
     /\ Len(tool_results) = 1 /\ "result" \in tool_results[1].keys)
    => \A k \in 1..Len(body.response) :
            body.response[k] = "[Tool "
            => /\ body.response[k + 1] = tool_results[1].tool
               /\ CarriesOutcome(body.response[k + 3], tool_results[1].result)

\* ------------------------------------------------------ claims on the tools
\* A search API key is supplied by the credentials of the request or by the
\* process environment.
KeyAvailable ==
    \/ /\ "tavily_api_key" \in DOMAIN call.credentials
       /\ call.credentials.tavily_api_key # ""
    \/ call.env.envKey # ""

\* C13: web_search makes the outbound search call exactly when the request
\* credentials or the process environment supply an API key; when neither
\* does it returns 'No search API key configured' and makes no call.
C13_SearchIffKey ==
    (call.op = "execute" /\ call.tool = "web_search" /\ IsDict(call.input))
    => /\ KeyAvailable <=> netLog = <<"api.tavily.com">>
       /\ ~KeyAvailable => ret = Err("", "No search API key configured")

\* --------------------------------------- the process-wide configuration
\* The JSON objects a configuration file or a POST /config body may hold:
\* partial configurations, a field being possibly the empty string.
ConfigBodies ==
    {EmptyDict,
     [provider |-> <<"openai">>], [provider |-> <<>>],
     [model |-> <<"gpt-4o">>], [model |-> <<>>],
     [provider |-> <<"anthropic">>, model |-> <<"claude">>, apiKey |-> <<"k">>],
     [credentials |-> [tavily_api_key |-> "key"]]}

\* dict.update
update(d, e) == [k \in DOMAIN d \cup DOMAIN e |-> IF k \in DOMAIN e THEN e[k] ELSE d[k]]

\* main of agent_server.py: the configuration file named on the command line
\* is loaded over the defaults (EmptyDict: no file, or one that does not load).
main(loaded_config) == update(DefaultConfig, loaded_config)

\* RequestHandler.handle_config_update, served when the server thread takes
\* the request.
ConfigUpdate ==
    /\ Idle
    /\ version < MaxUpdates
    /\ \E data \in ConfigBodies : current_config' = update(current_config, data)
    /\ version' = version + 1
    /\ UNCHANGED <<call, ret, fsLog, tmpFiles, tempPath, visited, netLog, chatVars, turn,
                   agent_config, agent_version, coroutines>>

\* The version a field is read from: the current one of the process-wide
\* configuration, none when the request carries its own config.
ReadFrom(own, v) == IF own THEN -1 ELSE v

\* handle_chat, first step: config = data.get('config', current_config), and
\* provider, model and apiKey read from it.
TurnRead ==
    /\ Idle
    /\ \E own \in BOOLEAN, marker \in BOOLEAN :
        turn' = [pc |-> "read", own |-> own, marker |-> marker,
                 read |-> [NoReads EXCEPT !.provider = ReadFrom(own, version),
                                          !.model = ReadFrom(own, version),
                                          !.apiKey = ReadFrom(own, version)]]
    /\ call' = [op |-> "turn"]
    /\ UNCHANGED <<ret, fsLog, tmpFiles, tempPath, visited, netLog, current_config, chatVars,
                   version, agent_config, agent_version, coroutines>>

\* handle_chat, second step: the round trip to the provider (urlopen blocks
\* the server thread until the answer is there).
TurnCall ==
    /\ turn.pc = "read"
    /\ turn' = [turn EXCEPT !.pc = "called"]
    /\ UNCHANGED <<call, ret, fsLog, tmpFiles, tempPath, visited, netLog, current_config,
                   chatVars, version, agent_config, agent_version, coroutines>>

\* handle_chat, third step: config.get('credentials', {}) is read when the
\* reply holds "[TOOL:", and the answer is sent.
TurnAnswer ==
    /\ turn.pc = "called"
    /\ turn' = [turn EXCEPT !.pc = "answered",
                            !.read.credentials =
                                IF turn.marker THEN ReadFrom(turn.own, version) ELSE -1]
    /\ UNCHANGED <<call, ret, fsLog, tmpFiles, tempPath, visited, netLog, current_config,
                   chatVars, version, agent_config, agent_version, coroutines>>

\* The turn is over: the server thread takes the next request.
TurnDone ==
    /\ turn.pc = "answered"
    /\ turn' = NoTurn
    /\ call' = [op |-> "none"]
    /\ UNCHANGED <<ret, fsLog, tmpFiles, tempPath, visited, netLog, current_config, chatVars,
                   version, agent_config, agent_version, coroutines>>

\* ------------------------------------------------------- agent_runner.py
\* The process is agent_runner.py: uvicorn's event loop runs its handlers.
Runner == call.op = "runner"

\* What a .agentforge file may hold.
AgentFiles ==
    {get_default_config, EmptyDict, [name |-> "x"],
     [provider |-> "openai", model |-> "gpt-4o", apiKey |-> "k"],
     [provider |-> "anthropic"]}

\* The bodies of POST /config/provider (ProviderConfig: provider, and
\* optionally api_key and model).
ProviderConfigs ==
    {[provider |-> "openai"], [provider |-> "openai", api_key |-> "k2"],
     [provider |-> "anthropic", api_key |-> "k3", model |-> "claude"],
     [provider |-> "ollama", model |-> "mistral"], [provider |-> ""]}

\* set_provider: the three assignments, made without an await between them.
set_provider(cfg, config) ==
    LET p == Put(cfg, "provider", config.provider)
        k == IF Get(config, "api_key", "") # "" THEN Put(p, "apiKey", config.api_key) ELSE p
    IN  IF Get(config, "model", "") # "" THEN Put(k, "model", config.model) ELSE k

SetProvider ==
    /\ Runner
    /\ agent_version < MaxUpdates
    /\ \E config \in ProviderConfigs : agent_config' = set_provider(agent_config, config)
    /\ agent_version' = agent_version + 1
    /\ UNCHANGED <<call, ret, fsLog, tmpFiles, tempPath, visited, netLog, current_config,
                   chatVars, version, turn, coroutines>>

\* load_config: the file at the path replaces the whole configuration.
LoadConfig ==
    /\ Runner
    /\ agent_version < MaxUpdates
    /\ \E file \in AgentFiles : agent_config' = file
    /\ agent_version' = agent_version + 1
    /\ UNCHANGED <<call, ret, fsLog, tmpFiles, tempPath, visited, netLog, current_config,
                   chatVars, version, turn, coroutines>>

\* run_agent up to its await: the four reads of agent_config and the adapter
\* chosen, with the model and the key handed to it.
run_agent(cfg, v) ==
    LET provider == Get(cfg, "provider", "ollama")
        model == Get(cfg, "model", "llama3.2")
        api_key == Get(cfg, "apiKey", "")
        read == [NoReads EXCEPT !.provider = v, !.model = v, !.apiKey = v]
    IN  IF cfg = EmptyDict
        THEN [pc |-> "answered", adapter |-> "none", model |-> "", api_key |-> "",
              read |-> NoReads]
        ELSE IF provider = "ollama"
        THEN [pc |-> "awaiting", adapter |-> "ollama", model |-> model, api_key |-> "",
              read |-> read]
        ELSE IF provider \in {"openai", "anthropic"} /\ api_key # ""
        THEN [pc |-> "awaiting", adapter |-> provider, model |-> model, api_key |-> api_key,
              read |-> read]
        \* Default to Ollama, with call_ollama's default model
        ELSE [pc |-> "awaiting", adapter |-> "ollama", model |-> "llama3.2", api_key |-> "",
              read |-> read]

\* POST /chat: a coroutine runs run_agent until it awaits the adapter.
RunAgent ==
    /\ Runner
    /\ \E c \in Coroutines :
        /\ coroutines[c].pc = "free"
        /\ coroutines' = [coroutines EXCEPT ![c] = run_agent(agent_config, agent_version)]
    /\ UNCHANGED <<call, ret, fsLog, tmpFiles, tempPath, visited, netLog, current_config,
                   chatVars, version, turn, agent_config, agent_version>>

\* The adapter's answer arrived: the coroutine returns the response.
ChatReturns ==
    /\ Runner
    /\ \E c \in Coroutines :
        /\ coroutines[c].pc \in {"awaiting", "answered"}
        /\ coroutines' = [coroutines EXCEPT ![c] = Free]
    /\ UNCHANGED <<call, ret, fsLog, tmpFiles, tempPath, visited, netLog, current_config,
                   chatVars, version, turn, agent_config, agent_version>>

\* The process is one of the two servers, started with or without a
\* configuration file.
InitConfig ==
    \/ \E loaded_config \in ConfigBodies :
        Started([op |-> "none"], main(loaded_config), get_default_config)
    \/ \E file \in AgentFiles :
        Started([op |-> "runner"], DefaultConfig, file)

NextConfig ==
    \/ ConfigUpdate \/ TurnRead \/ TurnCall \/ TurnAnswer \/ TurnDone
    \/ SetProvider \/ LoadConfig \/ RunAgent \/ ChatReturns

SpecConfig == InitConfig /\ [][NextConfig]_vars

\* --------------------------------------------- claims on the configuration
\* The fields read from the process-wide configuration were all read from
\* one version of it.
SingleVersion(read) ==
    \A f \in DOMAIN read, g \in DOMAIN read :
        (read[f] # -1 /\ read[g] # -1) => read[f] = read[g]

\* C14: in both servers, whatever configuration updates are requested while
\* chat turns are in flight, the provider, the model and the API key or
\* credentials one chat turn uses come from a single version of the
\* process-wide configuration.
C14_ConsistentSnapshot ==
    /\ SingleVersion(turn.read)
    /\ \A c \in Coroutines : SingleVersion(coroutines[c].read)

\* agent_runner.py: a chat turn awaits its provider with what it read from
\* version 0 while the configuration was updated under it and a second turn
\* read the new version.
C14_Witness ==
    /\ Runner
    /\ agent_version = 1
    /\ coroutines[1].pc = "awaiting"
    /\ coroutines[1].read = [NoReads EXCEPT !.provider = 0, !.model = 0, !.apiKey = 0]
    /\ coroutines[2].pc = "awaiting"
    /\ coroutines[2].read.provider = 1
    /\ coroutines[1].adapter # coroutines[2].adapter

\* C15: after initialization, whatever configuration file was loaded at
\* startup and whatever POST /config bodies were applied, current_config has
\* a provider field and a model field that are not empty.
C15_ProviderAndModel ==
    ~Runner
    => /\ "provider" \in DOMAIN current_config /\ current_config.provider # <<>>
       /\ "model" \in DOMAIN current_config /\ current_config.model # <<>>

\* ------------------------------------------------ claims on plain replies
\* A tool-call marker stands at index i of the text: "[TOOL:", an identifier
\* and "]", then an object in braces that hold something, with any
\* whitespace after "[TOOL:" and before the object.
MarkerAt(s, i) ==
    LET id == SkipSpaces(s, i + 1)
        open == SkipSpaces(s, id + 2)
    IN  /\ s[i] = TOOL
        /\ id <= Len(s) /\ s[id] \in Words
        /\ id + 1 <= Len(s) /\ s[id + 1] = RBRACKET
        /\ open + 2 <= Len(s) /\ s[open] = LBRACE /\ s[open + 1] # RBRACE
        /\ \E close \in (open + 2)..Len(s) : s[close] = RBRACE

\* The provider answered with a text that holds no tool-call marker.
ReplyWithoutMarker ==
    /\ call.op = "chat"
    /\ call.net.kind = "reply"
    /\ sent.adapter # "none"
    /\ \A i \in 1..Len(call.net.text) : ~MarkerAt(call.net.text, i)

\* C16: when the provider's reply holds no tool-call marker the response text
\* is the reply, token for token, tool_results is the empty list and no tool
\* is executed.
C16_PlainReplyVerbatim ==
    ReplyWithoutMarker
    => /\ status = <<200>>
       /\ body.keys = {"response", "tool_results"}
       /\ body.response = call.net.text
       /\ body.tool_results = <<>>
       /\ tool_results = <<>>
       /\ visited = <<>> /\ fsLog = <<>> /\ tempPath = 0
       /\ netLog = <<"provider:" \o sent.adapter>>

\* The reply holds "[TOOL:" and a tool's name, but its braces are empty: the
\* reply is looked through for markers and comes back as it was.
C16_Witness ==
    /\ ReplyWithoutMarker
    /\ call.net.text = <<PLAIN>> \o Marker(1, "calculator", 1, ObjEmpty)
    /\ body.response = call.net.text
    /\ body.tool_results = <<>>
    /\ status = <<200>>

\* ----------------------------------------- claims on the three file tools
\* The call asks a file tool for a path outside the allowed directories.
FileToolOutside ==
    /\ call.op = "execute"
    /\ call.tool \in {"file_read", "file_write", "csv_read"}
    /\ IsDict(call.input)
    /\ "path" \in DOMAIN call.input
    /\ ~Allowed(abspath(call.input.path))

\* C17: file_read, file_write and csv_read all apply the confinement check
\* before they touch the file system: a path outside the allowed directories
\* is never opened by any of the three.
C17_FileToolsConfined == FileToolOutside => fsLog = <<>>

====
